---- MODULE Spec2Model ----
(***************************************************************************)
(* The AddLoraText component (src/components/PromptForm/AddLoraText.tsx):   *)
(* a dialog that searches and pages through a remote catalog of tunes,      *)
(* appends "<lora:id:1>" tags to a shared list and removes them again.      *)
(*                                                                         *)
(* One action is one turn of the UI event loop: an event handler, timer     *)
(* callback or promise continuation, the re-render its state updates cause  *)
(* and the effects that re-render runs.  A closure (a pending timer, a      *)
(* pending getTunes call) keeps the values of the render that created it.   *)
(***************************************************************************)
EXTENDS Integers, Sequences, FiniteSets, TLC

VARIABLES
    mounted,          \* the component has rendered once and run its effects
    props,            \* which optional callbacks the caller supplied
    isOpen,           \* useState(false)
    tunes,            \* useState<Tune[]>([])
    loading,          \* useState(false)
    error,            \* useState<string | null>(null)
    page,             \* useState(1)
    hasMore,          \* useState(true)
    searchQuery,      \* useState('')
    debouncedSearch,  \* useState('')
    loraTextList,     \* usePromptFormStore().loraTextList
    timers,           \* pending setTimeout callbacks, each with its captured searchQuery
    requests,         \* pending getTunes calls, each with the page/debouncedSearch of its closure
    notified,         \* the last call made to onSelect / onRemove
    failedReq,        \* history: the request whose failure set the displayed error
    issued,           \* history: pages requested since debouncedSearch last changed
    returned          \* history: per page, the length of the last page returned since debouncedSearch last changed

vars == <<mounted, props, isOpen, tunes, loading, error, page, hasMore, searchQuery,
          debouncedSearch, loraTextList, timers, requests, notified,
          failedReq, issued, returned>>

uiState   == <<isOpen, tunes, loading, error, page, hasMore, searchQuery, debouncedSearch>>
history   == <<failedReq, issued, returned>>

----------------------------------------------------------------------------
\* Bounds of the model

MaxPage == 3
MaxSel == 2

\* Search strings the user types
Terms == {"", "a"}

----------------------------------------------------------------------------
\* Program constants and values

ITEMS_PER_PAGE == 12

Null == "null"
FailMsg == "Failed to load tunes. Please try again."

\* Lengths of the pages the catalog returns: empty, short and full pages
RespCounts == {0, ITEMS_PER_PAGE - 1, ITEMS_PER_PAGE}

\* Lengths of the pages of a small catalog
SmallCounts == {0, 2}

\* Positions of the scroll container: scrollTop, clientHeight, scrollHeight
Geometries ==
    { [scrollTop |-> 0, clientHeight |-> 2, scrollHeight |-> 4],
      [scrollTop |-> 1, clientHeight |-> 2, scrollHeight |-> 4],
      [scrollTop |-> 2, clientHeight |-> 2, scrollHeight |-> 4] }

\* getTunes(page, limit, search): the n items the catalog returns for the query
getTunes(pg, limit, search, n) ==
    [i \in 1..n |-> [id |-> <<search, pg, i>>]]

\* `<lora:${tune.id}:1>`
LoraText(tune) == <<"<lora:", tune.id, ":1>">>

RemoveAt(s, i) == [j \in 1..(Len(s) - 1) |-> IF j < i THEN s[j] ELSE s[j + 1]]

\* A filter by value: it drops every entry equal to the one at index
FilterOutValue(list, index) ==
    LET keep == {j \in 1..Len(list) : list[j] # list[index]}
        F[k \in 0..Len(list)] ==
            IF k = 0 THEN <<>>
            ELSE IF k \in keep THEN Append(F[k - 1], list[k]) ELSE F[k - 1]
    IN F[Len(list)]

\* loraTextList.filter((_, i) => i !== index), index counted from 1
FilterOutIndex(list, index) ==
    LET keep == {j \in 1..Len(list) : j # index}
        F[k \in 0..Len(list)] ==
            IF k = 0 THEN <<>>
            ELSE IF k \in keep THEN Append(F[k - 1], list[k]) ELSE F[k - 1]
    IN F[Len(list)]

\* No page returned yet: length 0 for every page
NoneReturned == [p \in 1..MaxPage |-> 0]

----------------------------------------------------------------------------
Init ==
    /\ mounted = FALSE
    /\ props \in [onSelect : BOOLEAN, onRemove : BOOLEAN]
    /\ isOpen = FALSE
    /\ tunes = <<>>
    /\ loading = FALSE
    /\ error = Null
    /\ page = 1
    /\ hasMore = TRUE
    /\ searchQuery = ""
    /\ debouncedSearch = ""
    /\ loraTextList = <<>>
    /\ timers = <<>>
    /\ requests = <<>>
    /\ notified = [fn |-> "none"]
    /\ failedReq = Null
    /\ issued = {}
    /\ returned = NoneReturned

----------------------------------------------------------------------------
\* fetchTunes without its `if (loading) return` guard
fetchTunesUnguarded(pg, ds, since) ==
    /\ loading' = TRUE
    /\ error' = Null
    /\ requests' = Append(requests, [page |-> pg, search |-> ds])
    /\ failedReq' = Null
    /\ issued' = since \cup {pg}

\* fetchTunes without its setError(null)
fetchTunesKeepsError(pg, ds, since) ==
    IF loading
    THEN /\ UNCHANGED <<loading, error, requests, failedReq>>
         /\ issued' = since
    ELSE /\ loading' = TRUE
         /\ UNCHANGED error
         /\ requests' = Append(requests, [page |-> pg, search |-> ds])
         /\ failedReq' = Null
         /\ issued' = since \cup {pg}

\* fetchTunes up to its await, called from a render whose state is
\* (loading, pg, ds): the guard, setLoading(true), setError(null), getTunes(...)
fetchTunes(pg, ds, since) ==
    IF loading
    THEN /\ UNCHANGED <<loading, error, requests, failedReq>>
         /\ issued' = since
    ELSE /\ loading' = TRUE
         /\ error' = Null
         /\ requests' = Append(requests, [page |-> pg, search |-> ds])
         /\ failedReq' = Null
         /\ issued' = since \cup {pg}

\* useEffect(() => { fetchTunes(); }, [page, debouncedSearch]) after a re-render
FetchEffect ==
    IF page' # page \/ debouncedSearch' # debouncedSearch
    THEN fetchTunes(page', debouncedSearch',
                    IF debouncedSearch' # debouncedSearch THEN {} ELSE issued)
    ELSE UNCHANGED <<loading, error, requests, failedReq, issued>>

\* First render: both effects run; the debounce effect arms its timer
Mount ==
    /\ ~mounted
    /\ mounted' = TRUE
    /\ timers' = Append(timers, searchQuery)
    /\ fetchTunes(page, debouncedSearch, issued)
    /\ UNCHANGED <<props, isOpen, tunes, page, hasMore, searchQuery, debouncedSearch,
                   loraTextList, notified, returned>>

\* Dialog onOpenChange={setIsOpen}
OpenChange(b) ==
    /\ mounted
    /\ isOpen # b
    /\ isOpen' = b
    /\ UNCHANGED <<mounted, props, tunes, loading, error, page, hasMore, searchQuery,
                   debouncedSearch, loraTextList, timers, requests, notified, history>>

\* The debounce effect without its cleanup: the previous timer stays armed
DebounceEffectNoCleanup(old, q) == Append(old, q)

\* The debounce effect re-run for a new searchQuery: the cleanup of the
\* previous run clears its timer (old), then a new timer capturing q is armed
DebounceEffect(old, q) == <<q>>

\* Input onChange: setSearchQuery(e.target.value); the event carries a value
\* other than the one displayed
Keystroke(q) ==
    /\ mounted /\ isOpen
    /\ q # searchQuery
    /\ searchQuery' = q
    /\ timers' = DebounceEffect(timers, q)
    /\ UNCHANGED <<mounted, props, isOpen, tunes, loading, error, page, hasMore,
                   debouncedSearch, loraTextList, requests, notified, history>>

\* The timer callback: setDebouncedSearch(searchQuery); setPage(1); setTunes([])
TimerFire(i) ==
    /\ mounted
    /\ i \in 1..Len(timers)
    /\ debouncedSearch' = timers[i]
    /\ page' = 1
    /\ tunes' = <<>>
    /\ timers' = RemoveAt(timers, i)
    /\ FetchEffect
    /\ returned' = IF debouncedSearch' # debouncedSearch THEN NoneReturned ELSE returned
    /\ UNCHANGED <<mounted, props, isOpen, hasMore, searchQuery, loraTextList, notified>>

\* setTunes that replaces the list whatever the page
ApplyResponseReplace(prev, pg, response) == response

\* setTunes(prev => page === 1 ? response : [...prev, ...response])
ApplyResponse(prev, pg, response) ==
    IF pg = 1 THEN response ELSE prev \o response

\* setHasMore that takes any non-empty page as a sign of more
HasMoreAfterNonEmpty(response) == Len(response) > 0

\* setHasMore(response.length > 0 && response.length === ITEMS_PER_PAGE)
HasMoreAfter(response) ==
    Len(response) > 0 /\ Len(response) = ITEMS_PER_PAGE

\* The continuation of fetchTunes after its await returned n items to the
\* closure requests[i]: setTunes, setHasMore, finally setLoading(false)
FetchSuccess(i, n) ==
    /\ i \in 1..Len(requests)
    /\ LET r == requests[i]
           response == getTunes(r.page, ITEMS_PER_PAGE, r.search, n)
       IN /\ tunes' = ApplyResponse(tunes, r.page, response)
          /\ hasMore' = HasMoreAfter(response)
    /\ loading' = FALSE
    /\ requests' = RemoveAt(requests, i)
    /\ returned' = [returned EXCEPT ![requests[i].page] = n]
    /\ UNCHANGED <<mounted, props, isOpen, error, page, searchQuery, debouncedSearch,
                   loraTextList, timers, notified, failedReq, issued>>

\* A catch block with no finally: loading is never set back
FetchFailureNoFinally(i) ==
    /\ i \in 1..Len(requests)
    /\ error' = FailMsg
    /\ requests' = RemoveAt(requests, i)
    /\ failedReq' = requests[i]
    /\ UNCHANGED <<mounted, props, isOpen, tunes, loading, page, hasMore, searchQuery,
                   debouncedSearch, loraTextList, timers, notified, issued, returned>>

\* A catch block that also steps the page counter back
FetchFailureRollback(i) ==
    /\ i \in 1..Len(requests)
    /\ error' = FailMsg
    /\ loading' = FALSE
    /\ requests' = RemoveAt(requests, i)
    /\ failedReq' = requests[i]
    /\ page' = page - 1
    /\ UNCHANGED <<mounted, props, isOpen, tunes, hasMore, searchQuery,
                   debouncedSearch, loraTextList, timers, notified, issued, returned>>

\* The continuation of fetchTunes after its await threw: catch sets the
\* error, finally setLoading(false)
FetchFailure(i) ==
    /\ i \in 1..Len(requests)
    /\ error' = FailMsg
    /\ loading' = FALSE
    /\ requests' = RemoveAt(requests, i)
    /\ failedReq' = requests[i]
    /\ UNCHANGED <<mounted, props, isOpen, tunes, page, hasMore, searchQuery,
                   debouncedSearch, loraTextList, timers, notified, issued, returned>>

\* The Retry button, rendered only while error is set: onClick={fetchTunes}
Retry ==
    /\ mounted /\ isOpen
    /\ error # Null
    /\ fetchTunes(page, debouncedSearch, issued)
    /\ UNCHANGED <<mounted, props, isOpen, tunes, page, hasMore, searchQuery,
                   debouncedSearch, loraTextList, timers, notified, returned>>

\* scrollHeight - scrollTop <= clientHeight * 1.5
NearBottom(g) == 2 * (g.scrollHeight - g.scrollTop) <= 3 * g.clientHeight

\* handleScroll without its !loading condition
ScrollPageWhileLoading(g) ==
    IF NearBottom(g) /\ hasMore THEN page + 1 ELSE page

\* The page handleScroll leaves: setPage(prev => prev + 1) under its condition
ScrollPage(g) ==
    IF NearBottom(g) /\ hasMore /\ ~loading THEN page + 1 ELSE page

\* onScroll of the results container
handleScroll(g) ==
    /\ mounted /\ isOpen
    /\ ScrollPage(g) <= MaxPage
    /\ page' = ScrollPage(g)
    /\ UNCHANGED debouncedSearch
    /\ FetchEffect
    /\ UNCHANGED <<mounted, props, isOpen, tunes, hasMore, searchQuery,
                   loraTextList, timers, notified, returned>>

\* A selection that skips a tag the list already holds
SelectListOnce(list, tune) ==
    IF \E j \in 1..Len(list) : list[j] = LoraText(tune)
    THEN list ELSE list \o <<LoraText(tune)>>

\* setLoraTextList([...loraTextList, `<lora:${tune.id}:1>`])
SelectList(list, tune) == list \o <<LoraText(tune)>>

\* The cards the user clicks: the first and the last of the result list
Cards == {1, Len(tunes)} \cap (1..Len(tunes))

\* A handleSelect that also empties the search box
handleSelectClearsSearch(k) ==
    /\ mounted /\ isOpen
    /\ k \in 1..Len(tunes)
    /\ Len(loraTextList) < MaxSel
    /\ loraTextList' = SelectList(loraTextList, tunes[k])
    /\ notified' = IF props.onSelect THEN [fn |-> "onSelect", arg |-> tunes[k]]
                   ELSE notified
    /\ isOpen' = FALSE
    /\ searchQuery' = ""
    /\ UNCHANGED <<mounted, props, tunes, loading, error, page, hasMore,
                   debouncedSearch, timers, requests, history>>

\* onClick of the card of tunes[k]
handleSelect(k) ==
    /\ mounted /\ isOpen
    /\ k \in 1..Len(tunes)
    /\ Len(loraTextList) < MaxSel
    /\ loraTextList' = SelectList(loraTextList, tunes[k])
    /\ notified' = IF props.onSelect THEN [fn |-> "onSelect", arg |-> tunes[k]]
                   ELSE notified
    /\ isOpen' = FALSE
    /\ UNCHANGED <<mounted, props, tunes, loading, error, page, hasMore, searchQuery,
                   debouncedSearch, timers, requests, history>>

\* onClick of the remove button of loraTextList[index], index counted from 1
Remove(index) ==
    /\ mounted
    /\ index \in 1..Len(loraTextList)
    /\ loraTextList' = FilterOutIndex(loraTextList, index)
    /\ notified' = IF props.onRemove THEN [fn |-> "onRemove", arg |-> loraTextList[index]]
                   ELSE notified
    /\ UNCHANGED <<mounted, props, uiState, timers, requests, history>>

----------------------------------------------------------------------------
\* The steps of searching and paging, over a catalog whose pages have
\* the lengths in counts
Browse(counts) ==
    \/ Mount
    \/ \E b \in BOOLEAN : OpenChange(b)
    \/ \E q \in Terms : Keystroke(q)
    \/ \E i \in 1..Len(timers) : TimerFire(i)
    \/ \E i \in 1..Len(requests), n \in counts : FetchSuccess(i, n)
    \/ \E i \in 1..Len(requests) : FetchFailure(i)
    \/ Retry
    \/ \E g \in Geometries : handleScroll(g)

\* Every operation of the component, over a small catalog
Next ==
    \/ Browse(SmallCounts)
    \/ \E k \in Cards : handleSelect(k)
    \/ \E index \in 1..Len(loraTextList) : Remove(index)

Spec == Init /\ [][Next]_vars

\* Searching and paging alone, over a catalog with full pages
BrowseNext == Browse(RespCounts)

BrowseSpec == Init /\ [][BrowseNext]_vars

\* A pending getTunes call settles: its promise resolves or rejects
Settle ==
    \/ \E i \in 1..Len(requests), n \in RespCounts : FetchSuccess(i, n)
    \/ \E i \in 1..Len(requests) : FetchFailure(i)

\* Searching and paging where every getTunes call eventually returns or throws
FairSpec == BrowseSpec /\ WF_vars(Settle)

----------------------------------------------------------------------------
\* Nothing is pending: no timer armed, no request in flight
Quiescent == mounted /\ timers = <<>> /\ requests = <<>>

\* C1: at most one getTunes request is outstanding in every reachable
\* state, whatever the interleaving of mount, timer firings, scrolls, Retry
\* clicks and responses: fetchTunes invoked while one is pending issues none.
C1_SingleRequest == Len(requests) <= 1

\* C1 witness: the fetch effect ran for a new debounced term while the
\* request of the old term was pending, and that request is still the only one.
C1_Witness ==
    /\ Len(requests) = 1
    /\ loading
    /\ requests[1].search # debouncedSearch

\* C2 (as stated): once the debounce timer has fired with a changed term and
\* nothing is pending any more, a request for page 1 with the new term has
\* been issued.
C2_FreshFetchIssued == Quiescent => 1 \in issued

\* C3 (as stated): the first request issued with a new debounced term is
\* issued with page = 1 against an empty result list.
C3_FirstRequestFresh ==
    [][ (issued' # {} /\ (issued = {} \/ debouncedSearch' # debouncedSearch))
        => (page' = 1 /\ tunes' = <<>>
            /\ requests'[Len(requests')] = [page |-> 1, search |-> debouncedSearch']) ]_vars

\* C4 (as stated): a failing fetch leaves tunes, page and hasMore alone, sets
\* the error and clears loading; Retry then issues a request with the page
\* and search term of the failed request.
C4_FailureThenRetry ==
    [][ /\ \A i \in 1..Len(requests) :
             FetchFailure(i) =>
                 /\ UNCHANGED <<tunes, page, hasMore>>
                 /\ error' = FailMsg
                 /\ ~loading'
        /\ (Retry /\ requests' # requests) =>
                 requests'[Len(requests')] = failedReq ]_vars

\* The item the catalog returns at position j of the page a request asked for
ItemOf(r, j) == [id |-> <<r.search, r.page, j>>]

\* C5: a response applied for a page-1 request becomes the whole result
\* list; a response applied for a later page is appended, the previous list
\* staying as a prefix in its order.
C5_ReplaceOrAppend ==
    [][ \A i \in 1..Len(requests), n \in RespCounts :
          FetchSuccess(i, n) =>
            LET r == requests[i] IN
              /\ r.page = 1 =>
                    /\ Len(tunes') = n
                    /\ \A j \in 1..n : tunes'[j] = ItemOf(r, j)
              /\ r.page > 1 =>
                    /\ Len(tunes') = Len(tunes) + n
                    /\ SubSeq(tunes', 1, Len(tunes)) = tunes
                    /\ \A j \in 1..n : tunes'[Len(tunes) + j] = ItemOf(r, j) ]_vars

\* C5 witness: a full page 2 was appended behind a full page 1.
C5_Witness ==
    /\ Len(tunes) = 2 * ITEMS_PER_PAGE
    /\ tunes[1].id[2] = 1
    /\ tunes[ITEMS_PER_PAGE + 1].id[2] = 2

SumReturned ==
    LET S[p \in 0..MaxPage] == IF p = 0 THEN 0 ELSE S[p - 1] + returned[p]
    IN S[MaxPage]

\* C6 (as stated): in every reachable state the length of the result list
\* is the sum of the lengths of the pages returned since the debounced
\* search term last changed.
C6_LengthIsSumOfPages == Len(tunes) = SumReturned

\* C7: after a successful fetch hasMore is true exactly when the page held
\* ITEMS_PER_PAGE items, and while hasMore is false a scroll event neither
\* increments the page counter nor causes a request.
C7_HasMoreIffFullPage ==
    [][ /\ \A i \in 1..Len(requests), n \in RespCounts :
             FetchSuccess(i, n) => (hasMore' <=> (n = ITEMS_PER_PAGE))
        /\ \A g \in Geometries :
             (handleScroll(g) /\ ~hasMore) =>
                 (page' = page /\ requests' = requests) ]_vars

\* C7 witness: a full page set hasMore, the next page was fetched, came back
\* one item short and cleared it.
C7_Witness ==
    /\ Len(tunes) = 2 * ITEMS_PER_PAGE - 1
    /\ ~hasMore
    /\ page = 2

\* C8: a scroll event changes the page counter only by +1 and only when the
\* position is near the bottom, hasMore is true and no fetch is in flight;
\* every increment issues the request for the new page.
C8_ScrollIncrement ==
    [][ \A g \in Geometries :
          handleScroll(g) =>
            /\ page' \in {page, page + 1}
            /\ page' = page + 1 =>
                  /\ NearBottom(g) /\ hasMore /\ ~loading /\ requests = <<>>
                  /\ requests' = <<[page |-> page + 1, search |-> debouncedSearch]>>
                  /\ loading'
            /\ page' = page => requests' = requests ]_vars

\* C8 witness: a scroll below a loaded full page raised the counter to 2
\* and the request for page 2 is in flight.
C8_Witness ==
    /\ page = 2
    /\ Len(tunes) = ITEMS_PER_PAGE
    /\ requests = <<[page |-> 2, search |-> debouncedSearch]>>

\* C9: at most one debounce timer is pending and it holds the raw term of
\* the latest keystroke; the debounced term changes only when that timer
\* fires and then equals the raw search term.
C9_SingleTimer ==
    [][ /\ Len(timers') <= 1
        /\ timers' # <<>> => timers'[1] = searchQuery'
        /\ searchQuery' # searchQuery => timers' = <<searchQuery'>>
        /\ debouncedSearch' # debouncedSearch =>
              /\ timers = <<searchQuery>>
              /\ timers' = <<>>
              /\ debouncedSearch' = searchQuery ]_vars

\* C9 witness: the timer of "a" fired and made it the query term, and a
\* later keystroke armed the one pending timer with the new raw term.
C9_Witness ==
    /\ debouncedSearch = "a"
    /\ searchQuery = ""
    /\ timers = <<"">>

\* C10: selecting a card appends the tag of its tune behind the unchanged
\* old selection list, duplicates included, passes the tune to onSelect when
\* the caller supplied it, and closes the dialog.
C10_SelectAppends ==
    [][ \A k \in 1..Len(tunes) :
          handleSelect(k) =>
            /\ Len(loraTextList') = Len(loraTextList) + 1
            /\ SubSeq(loraTextList', 1, Len(loraTextList)) = loraTextList
            /\ loraTextList'[Len(loraTextList')] = <<"<lora:", tunes[k].id, ":1>">>
            /\ props.onSelect => notified' = [fn |-> "onSelect", arg |-> tunes[k]]
            /\ ~props.onSelect => notified' = notified
            /\ ~isOpen' ]_vars

\* C10 witness: the same tune was selected twice, onSelect was told and the
\* dialog is closed.
C10_Witness ==
    /\ Len(loraTextList) = 2
    /\ loraTextList[1] = loraTextList[2]
    /\ loraTextList[2][1] = "<lora:" /\ loraTextList[2][3] = ":1>"
    /\ props.onSelect
    /\ notified.fn = "onSelect"
    /\ ~isOpen

\* C11: removing the selection at an index yields a list one shorter, the
\* entries before it unchanged and every later entry moved down by one, no
\* other entry removed even when it is an equal string; onRemove, when
\* supplied, receives the string that was at the index.
C11_RemoveAtIndex ==
    [][ \A index \in 1..Len(loraTextList) :
          Remove(index) =>
            /\ Len(loraTextList') = Len(loraTextList) - 1
            /\ \A j \in 1..(index - 1) : loraTextList'[j] = loraTextList[j]
            /\ \A j \in (index + 1)..Len(loraTextList) :
                   loraTextList'[j - 1] = loraTextList[j]
            /\ props.onRemove =>
                   notified' = [fn |-> "onRemove", arg |-> loraTextList[index]]
            /\ ~props.onRemove => notified' = notified ]_vars

\* C11 witness: of two equal tags one was removed, onRemove was told, and
\* the equal tag is still in the list.
C11_Witness ==
    /\ props.onRemove
    /\ notified.fn = "onRemove"
    /\ Len(loraTextList) = 1
    /\ loraTextList[1] = notified.arg

\* C12: the page counter is at least 1; it decreases only when the debounce
\* timer resets it to 1 and otherwise changes only by +1 in a scroll step;
\* neither a successful nor a failed fetch changes it.
C12_PageCounter ==
    [][ /\ page >= 1 /\ page' >= 1
        /\ page' < page =>
              /\ page' = 1
              /\ \E i \in 1..Len(timers) : TimerFire(i)
        /\ page' > page =>
              /\ page' = page + 1
              /\ \E g \in Geometries : handleScroll(g)
        /\ \A i \in 1..Len(requests) :
              /\ FetchFailure(i) => page' = page
              /\ \A n \in RespCounts : FetchSuccess(i, n) => page' = page ]_vars

\* C12 witness: a scroll had raised the counter to 2 (page 2 was requested
\* for the current term) and the debounce timer has reset it to 1.
C12_Witness ==
    /\ page = 1
    /\ 2 \in issued
    /\ timers = <<>>

\* A step that calls getTunes
IssuesRequest == Len(requests') > Len(requests)

\* A failing fetch ends inside fetchTunes: the step takes its request off
\* the pending ones, starts none and leaves the component mounted
FailureStaysLocal ==
    \A i \in 1..Len(requests) :
        FetchFailure(i) => (Len(requests') < Len(requests) /\ mounted' /\ ~loading')

\* C13 (as stated): after a failed fetch the next request is issued only by
\* a Retry click, a scroll that increments the page, or a debounce-timer
\* step that changes the search term; the failure stays inside fetchTunes.
C13_NoRequestButByUser ==
    [][ /\ FailureStaysLocal
        /\ (error # Null /\ IssuesRequest) =>
              \/ Retry
              \/ \E g \in Geometries : handleScroll(g) /\ page' = page + 1
              \/ \E i \in 1..Len(timers) :
                    TimerFire(i) /\ debouncedSearch' # debouncedSearch ]_vars

\* C14 (as stated): a response is applied only when the page and search
\* term of its request are the current ones, so with no request in flight
\* every item of the result list was returned for the current debounced term.
C14_ResponseMatchesState ==
    [][ /\ \A i \in 1..Len(requests), n \in RespCounts :
             FetchSuccess(i, n) =>
                 requests[i] = [page |-> page, search |-> debouncedSearch]
        /\ requests' = <<>> =>
             \A j \in 1..Len(tunes') : tunes'[j].id[1] = debouncedSearch' ]_vars

\* s is the responses for pages 1..k of one search term, in order: it
\* starts with item 1 of page 1 and every next item continues its page or
\* opens the next one
InOrderPages(s) ==
    \A j \in 1..Len(s) :
        IF j = 1
        THEN s[j].id[2] = 1 /\ s[j].id[3] = 1
        ELSE /\ s[j].id[1] = s[j - 1].id[1]
             /\ \/ s[j].id[2] = s[j - 1].id[2] /\ s[j].id[3] = s[j - 1].id[3] + 1
                \/ s[j].id[2] = s[j - 1].id[2] + 1 /\ s[j].id[3] = 1

\* C15 (as stated): no page is skipped, so the result list is the in-order
\* concatenation of the responses for pages 1..k for some k.
C15_NoPageSkipped == InOrderPages(tunes)

\* A result list that holds page 3 right behind page 1
C15_SkippedPageTwo ==
    /\ Len(tunes) = 2 * ITEMS_PER_PAGE
    /\ tunes[ITEMS_PER_PAGE].id[2] = 1
    /\ tunes[ITEMS_PER_PAGE + 1].id[2] = 3

\* C16 (as stated): the component never settles (no request in flight, no
\* timer pending, no error) with an empty result list when the last page 1
\* returned since the debounced term changed was not empty.
C16_ResultsNotLost ==
    (Quiescent /\ error = Null /\ returned[1] > 0) => tunes # <<>>

\* C17: loading is true exactly while a request is outstanding, and, every
\* request eventually returning or throwing, every started fetch eventually
\* sets loading back to false.
C17_LoadingEnds ==
    /\ [](loading <=> (requests # <<>>))
    /\ (loading ~> ~loading)

\* C17 witness: one fetch ended by returning a page and a later one by
\* throwing, and loading is false again.
C17_Witness ==
    /\ ~loading
    /\ requests = <<>>
    /\ tunes # <<>>
    /\ error = FailMsg

\* C18: every fetch that starts clears the error and only a failing fetch
\* sets it, so while the error is set no request is in flight, and a Retry
\* click on the visible error issues the request for the current page and
\* term instead of being dropped by the in-flight guard.
C18_ErrorMeansIdle ==
    [][ /\ error # Null => (requests = <<>> /\ ~loading)
        /\ error' # Null => (requests' = <<>> /\ ~loading')
        /\ IssuesRequest => error' = Null
        /\ (error = Null /\ error' # Null) =>
              \E i \in 1..Len(requests) : FetchFailure(i)
        /\ Retry =>
              requests' = <<[page |-> page, search |-> debouncedSearch]>> ]_vars

\* C18 witness: a fetch for page 2 failed; the dialog is open with the
\* error and its Retry button shown, and nothing is in flight.
C18_Witness ==
    /\ isOpen
    /\ error = FailMsg
    /\ page = 2
    /\ requests = <<>>

\* The state of searching and paging
browsing == <<tunes, loading, error, page, hasMore, searchQuery, debouncedSearch,
              timers, requests>>

\* C19: select and remove leave the result list, page counter, hasMore,
\* error and both search terms unchanged (select changes only the selection
\* list and the dialog-open flag; remove only the selection list), and
\* every other step leaves the selection list unchanged.
C19_SelectionIndependent ==
    [][ /\ (\E k \in 1..Len(tunes) : handleSelect(k)) => UNCHANGED browsing
        /\ (\E index \in 1..Len(loraTextList) : Remove(index)) =>
              UNCHANGED <<browsing, isOpen>>
        /\ \/ UNCHANGED loraTextList
           \/ \E k \in 1..Len(tunes) : handleSelect(k)
           \/ \E index \in 1..Len(loraTextList) : Remove(index) ]_vars

\* C19 witness: a tune found under the term "a" was selected, then the
\* user typed again and the timer fired, and the selection is still there.
C19_Witness ==
    /\ Len(loraTextList) = 1
    /\ loraTextList[1][2][1] = "a"
    /\ debouncedSearch = ""
    /\ tunes = <<>>
    /\ timers = <<>>

====
